---- MODULE Spec2Model ----
(***************************************************************************)
(* Model of week_two/notebooks/3 - Day Three - Model Training 1/           *)
(* 04.1 - Augmenting Audio Data.ipynb: the seeding cell, the augmentation  *)
(* chain, augment_and_save and the directory-walking driver.               *)
(*                                                                         *)
(* File names are sequences of one-character strings, so that Path.stem,   *)
(* the "*.wav" match and the f-string that builds the output name are      *)
(* computed the way pathlib and the f-string compute them.                 *)
(***************************************************************************)
EXTENDS Integers, Sequences, FiniteSets, TLC

\* ---------------------------------------------------------------- bounds

\* The largest number of entries under the input root.
MaxEntries == 3

\* ------------------------------------------------- configuration (cell 2)

SAMPLE_RATE == 16000

NUM_AUGMENTATIONS == 3

RANDOM_SEED == 42

\* ----------------------------------------------------------- file names

WavExt == <<".", "w", "a", "v">>

Chars(stemChars) == stemChars \o WavExt

\* The entries an input root may hold.  kind: "audio" is a readable sound
\* file, "corrupt" a file librosa.load cannot decode, "dir" a directory
\* (rglob yields directories whose name matches too), "other" a file that is
\* no sound file.  rate is the rate the file was recorded at.
Universe ==
    { [dir |-> <<"red">>,  name |-> Chars(<<"y", "e", "s">>), kind |-> "audio",   rate |-> 44100],
      [dir |-> <<"blue">>, name |-> Chars(<<"n", "o">>),      kind |-> "audio",   rate |-> 8000],
      [dir |-> <<>>,       name |-> Chars(<<"t", "o", "p">>), kind |-> "audio",   rate |-> 16000],
      [dir |-> <<"red">>,  name |-> WavExt,                   kind |-> "audio",   rate |-> 22050],
      [dir |-> <<"red">>,  name |-> Chars(WavExt),            kind |-> "audio",   rate |-> 48000],
      [dir |-> <<"red">>,  name |-> Chars(<<"b", "a", "d">>), kind |-> "corrupt", rate |-> 16000],
      [dir |-> <<>>,       name |-> Chars(<<"c", "l">>),      kind |-> "dir",     rate |-> 0],
      [dir |-> <<"red">>,  name |-> <<"a", ".", "t", "x", "t">>, kind |-> "other", rate |-> 0] }

NoEntry == [dir |-> <<>>, name |-> <<>>, kind |-> "none", rate |-> 0]

\* fnmatch of a name against "*.wav" (pathlib matches dot files too).
MatchesWav(name) ==
    /\ Len(name) >= Len(WavExt)
    /\ SubSeq(name, Len(name) - Len(WavExt) + 1, Len(name)) = WavExt

\* str.rfind: the largest 0-based index holding ch, or -1.
RFind(name, ch) ==
    LET hits == {k \in 1..Len(name) : name[k] = ch}
    IN  IF hits = {} THEN -1
        ELSE (CHOOSE k \in hits : \A m \in hits : m <= k) - 1

\* pathlib.PurePath.stem: the name up to its last dot, unless that dot is the
\* first or the last character.
Stem(name) ==
    LET k == RFind(name, ".")
    IN  IF 0 < k /\ k < Len(name) - 1 THEN SubSeq(name, 1, k) ELSE name

Digits == <<"0", "1", "2", "3", "4", "5", "6", "7", "8", "9">>

\* str(n) of a natural number, as the f-string formats i+1.
RECURSIVE Str(_)
Str(n) ==
    IF n < 10 THEN <<Digits[n + 1]>>
    ELSE Str(n \div 10) \o <<Digits[(n % 10) + 1]>>

\* output_subdir / f"{basename}_aug{i+1}.wav" (i is the 0-based loop index).
OutputPathZeroBased(subdir, base, k) ==
    [dir |-> subdir, name |-> base \o <<"_", "a", "u", "g">> \o Str(k) \o WavExt]

OutputPath(subdir, base, k) ==
    [dir |-> subdir, name |-> base \o <<"_", "a", "u", "g">> \o Str(k + 1) \o WavExt]

\* mkdir(parents=True, exist_ok=True) of output_root / subdir: the output
\* root (the empty prefix) and every prefix of subdir.
MkdirParents(subdir) == {SubSeq(subdir, 1, k) : k \in 0..Len(subdir)}

\* ------------------------------------------------- random streams (cell 4)

\* Python's random module is one global generator: a state, advanced by one
\* step per draw.  The stream is abstracted to a full-period congruential
\* generator over 0..15; what matters is that a draw is a function of the
\* state alone and that random.seed fixes the state.
RngStates == 0..15

LcgNext(x) == (5 * x + 3) % 16

\* random.seed(s): the state the seed fixes.
SeedState(s) == s % 16

\* The state reached n draws after random.seed(s).
RECURSIVE StreamAt(_, _)
StreamAt(s, n) == IF n = 0 THEN SeedState(s) ELSE LcgNext(StreamAt(s, n - 1))

\* numpy's global generator, which AddGaussianNoise.apply draws its noise
\* from (np.random.randn).  random.seed does not touch it, so the noise of a
\* call is any of the realisations below.
NoiseVals == {"n0", "n1"}

\* The chain of cell 4, in order; every transform has p = 0.5.
Transforms == <<"AddGaussianNoise", "TimeStretch", "PitchShift", "Shift">>

\* random.random() < 0.5 on a draw u of 0..15.
ShouldApply(u) == 2 * u < 16

\* One transform called on st = [samples, rng, draws]: randomize_parameters
\* draws should_apply, then (when it fires) the parameter by random.uniform;
\* apply returns a new waveform.  AddGaussianNoise also takes its noise from
\* numpy.
TransformCall(t, st, noise) ==
    LET u == LcgNext(st.rng)
        v == LcgNext(u)
        op == IF t = "AddGaussianNoise"
              THEN [t |-> t, param |-> v, noise |-> noise]
              ELSE [t |-> t, param |-> v, noise |-> "none"]
    IN  IF ShouldApply(u)
        THEN [samples |-> [st.samples EXCEPT !.ops = Append(@, op)],
              rng |-> v, draws |-> st.draws + 2]
        ELSE [samples |-> st.samples, rng |-> u, draws |-> st.draws + 1]

RECURSIVE ApplyFrom(_, _, _)
ApplyFrom(k, st, noise) ==
    IF k > Len(Transforms) THEN st
    ELSE ApplyFrom(k + 1, TransformCall(Transforms[k], st, noise), noise)

\* augmenter(samples=..., sample_rate=...): Compose.__call__ draws once for
\* its own p (1.0), then calls the transforms in order.  The sample rate is
\* passed through; no transform changes it.
Augmenter(samples, rng, draws, noise) ==
    ApplyFrom(1, [samples |-> samples, rng |-> LcgNext(rng), draws |-> draws + 1], noise)

\* ------------------------------------------------------------- librosa

NoWave == [src |-> NoEntry, rate |-> 0, ops |-> <<>>]

\* librosa.load with sr=None: the waveform at the file's own rate.
LibrosaLoadNative(entry, target) ==
    [y |-> [src |-> entry, rate |-> entry.rate, ops |-> <<>>], sr |-> entry.rate]

\* librosa.load(file_path, sr=sample_rate): the waveform resampled to the
\* target rate, and that rate.
LibrosaLoad(entry, target) ==
    [y |-> [src |-> entry, rate |-> target, ops |-> <<>>], sr |-> target]

\* The samples line 131 hands to the chain: a cumulative variant first.
ChainInputCumulative(orig, prev, k) == IF k = 0 THEN orig ELSE prev

ChainInput(orig, prev, k) == orig

\* The lines line 162 prints: a per-file variant first.
FoundReportPerFile(files) ==
    [k \in 1..Len(files) |-> [kind |-> "Found", n |-> Len(files), path |-> NoEntry]]

FoundReport(files) == <<[kind |-> "Found", n |-> Len(files), path |-> NoEntry]>>

\* ------------------------------------------------------------------ state

VARIABLES
    inputExists,    \* whether INPUT_DIR is a directory
    tree,           \* the entries under INPUT_DIR
    scanOrder,      \* the order in which the file system yields the matches
    pc,             \* position in the notebook
    run,            \* 1, or 2 once the notebook has been run again
    rng, draws, seeds,   \* random's state, draws since the seed, seed calls
    input_files, idx,    \* the driver's list and its loop position (1-based)
    file_path, sample_rate, class_subdir, basename, y, sr, i, augmented,
    dirs,           \* output directories created
    fs,             \* the output tree: path -> [data, rate]
    console,        \* the lines printed
    calls,          \* the library calls made, with their arguments
    prevFs          \* the output tree the previous run left

env == <<inputExists, tree, scanOrder>>
locals == <<file_path, sample_rate, class_subdir, basename, y, sr, i, augmented>>
vars == <<inputExists, tree, scanOrder, pc, run, rng, draws, seeds, input_files,
          idx, file_path, sample_rate, class_subdir, basename, y, sr, i,
          augmented, dirs, fs, console, calls, prevFs>>

Matches(t) == {e \in t : MatchesWav(e.name)}

\* The orders a traversal may yield a set of entries in.
Orders(S) ==
    {s \in [1..Cardinality(S) -> S] : \A a, b \in 1..Cardinality(S) : a # b => s[a] # s[b]}

EmptyFs == [p \in {} |-> NoWave]

Init ==
    /\ inputExists \in BOOLEAN
    /\ tree \in {t \in SUBSET Universe : Cardinality(t) <= MaxEntries}
    /\ inputExists = FALSE => tree = {}
    /\ scanOrder \in Orders(Matches(tree))
    /\ pc = "seed"
    /\ run = 1
    /\ rng \in RngStates
    /\ draws = 0
    /\ seeds = 0
    /\ input_files = <<>>
    /\ idx = 0
    /\ file_path = NoEntry
    /\ sample_rate = 0
    /\ class_subdir = <<>>
    /\ basename = <<>>
    /\ y = NoWave
    /\ sr = 0
    /\ i = 0
    /\ augmented = NoWave
    /\ dirs = {}
    /\ fs = EmptyFs
    /\ console = <<>>
    /\ calls = <<>>
    /\ prevFs = EmptyFs

\* ---------------------------------------------------------------- actions

NoPath == [dir |-> <<>>, name |-> <<>>]

\* One library call: which call, for which file of input_files and which loop
\* index, with which samples, rate and path, and random's stream position
\* before and after it.
Call(op, f, k, samples, rate, path, pos0, pos1) ==
    [op |-> op, file |-> f, k |-> k, samples |-> samples, sr |-> rate,
     path |-> path, pos0 |-> pos0, pos1 |-> pos1]

\* Cell 4 (lines 89-105): random.seed(RANDOM_SEED), then the chain is built.
Seed ==
    /\ pc = "seed"
    /\ rng' = SeedState(RANDOM_SEED)
    /\ draws' = 0
    /\ seeds' = seeds + 1
    /\ pc' = "discover"
    /\ UNCHANGED <<env, locals, run, input_files, idx, dirs, fs, console, calls, prevFs>>

\* A driver that raises when INPUT_DIR is missing.
DiscoverStrict ==
    /\ pc = "discover"
    /\ input_files' = IF inputExists THEN scanOrder ELSE <<>>
    /\ console' = IF inputExists THEN console \o FoundReport(input_files') ELSE console
    /\ idx' = 0
    /\ pc' = IF inputExists THEN "for" ELSE "aborted"
    /\ UNCHANGED <<env, locals, run, rng, draws, seeds, dirs, fs, calls, prevFs>>

\* A driver that creates the output root before it walks the input.
DiscoverMkdir ==
    /\ pc = "discover"
    /\ input_files' = IF inputExists THEN scanOrder ELSE <<>>
    /\ console' = console \o FoundReport(input_files')
    /\ idx' = 0
    /\ dirs' = dirs \cup {<<>>}
    /\ pc' = "for"
    /\ UNCHANGED <<env, locals, run, rng, draws, seeds, fs, calls, prevFs>>

\* Lines 158-162: list(input_root.rglob("*.wav")) and the count line.  rglob
\* of a path that is no directory yields nothing and raises nothing.
Discover ==
    /\ pc = "discover"
    /\ input_files' = IF inputExists THEN scanOrder ELSE <<>>
    /\ console' = console \o FoundReport(input_files')
    /\ idx' = 0
    /\ pc' = "for"
    /\ UNCHANGED <<env, locals, run, rng, draws, seeds, dirs, fs, calls, prevFs>>

\* Lines 164-165: the for loop takes the next file and calls
\* augment_and_save(file_path, SAMPLE_RATE, input_root, output_root).
NextFile ==
    /\ pc = "for"
    /\ idx < Len(input_files)
    /\ idx' = idx + 1
    /\ file_path' = input_files[idx + 1]
    /\ sample_rate' = SAMPLE_RATE
    /\ pc' = "load"
    /\ UNCHANGED <<env, run, rng, draws, seeds, input_files, class_subdir, basename,
                   y, sr, i, augmented, dirs, fs, console, calls, prevFs>>

\* Line 167: the loop is exhausted and the completion message is printed.
Finish ==
    /\ pc = "for"
    /\ idx = Len(input_files)
    /\ console' = Append(console, [kind |-> "Done", n |-> 0, path |-> NoEntry])
    /\ pc' = "done"
    /\ UNCHANGED <<env, locals, run, rng, draws, seeds, input_files, idx, dirs, fs,
                   calls, prevFs>>

\* augment_and_save that reseeds for every file.
LoadReseed ==
    /\ pc = "load"
    /\ file_path.kind = "audio"
    /\ class_subdir' = file_path.dir
    /\ basename' = Stem(file_path.name)
    /\ y' = LibrosaLoad(file_path, sample_rate).y
    /\ sr' = LibrosaLoad(file_path, sample_rate).sr
    /\ i' = 0
    /\ rng' = SeedState(RANDOM_SEED)
    /\ draws' = 0
    /\ calls' = Append(calls, Call("load", idx, 0, NoWave, sample_rate, NoPath, 0, 0))
    /\ pc' = IF 0 < NUM_AUGMENTATIONS THEN "augment" ELSE "for"
    /\ UNCHANGED <<env, run, seeds, input_files, idx, file_path, sample_rate,
                   augmented, dirs, fs, console, prevFs>>

\* Lines 124-130: the relative path is split and the waveform loaded.
Load ==
    /\ pc = "load"
    /\ file_path.kind = "audio"
    /\ class_subdir' = file_path.dir
    /\ basename' = Stem(file_path.name)
    /\ y' = LibrosaLoad(file_path, sample_rate).y
    /\ sr' = LibrosaLoad(file_path, sample_rate).sr
    /\ i' = 0
    /\ calls' = Append(calls, Call("load", idx, 0, NoWave, sample_rate, NoPath, draws, draws))
    /\ pc' = IF 0 < NUM_AUGMENTATIONS THEN "augment" ELSE "for"
    /\ UNCHANGED <<env, run, rng, draws, seeds, input_files, idx, file_path,
                   sample_rate, augmented, dirs, fs, console, prevFs>>

\* A driver that catches the failure of one file and goes on to the next.
LoadFailSkip ==
    /\ pc = "load"
    /\ file_path.kind # "audio"
    /\ class_subdir' = file_path.dir
    /\ basename' = Stem(file_path.name)
    /\ calls' = Append(calls, Call("load", idx, 0, NoWave, sample_rate, NoPath, draws, draws))
    /\ pc' = "for"
    /\ UNCHANGED <<env, run, rng, draws, seeds, input_files, idx, file_path,
                   sample_rate, y, sr, i, augmented, dirs, fs, console, prevFs>>

\* Line 128 raises (a directory, an undecodable file): nothing catches it.
LoadFail ==
    /\ pc = "load"
    /\ file_path.kind # "audio"
    /\ class_subdir' = file_path.dir
    /\ basename' = Stem(file_path.name)
    /\ calls' = Append(calls, Call("load", idx, 0, NoWave, sample_rate, NoPath, draws, draws))
    /\ pc' = "aborted"
    /\ UNCHANGED <<env, run, rng, draws, seeds, input_files, idx, file_path,
                   sample_rate, y, sr, i, augmented, dirs, fs, console, prevFs>>

\* Line 131: augmented = augmenter(samples=y, sample_rate=sample_rate).
Augment ==
    /\ pc = "augment"
    /\ \E noise \in NoiseVals :
         LET r == Augmenter(ChainInput(y, augmented, i), rng, draws, noise)
         IN  /\ augmented' = r.samples
             /\ rng' = r.rng
             /\ draws' = r.draws
             /\ calls' = Append(calls, Call("augment", idx, i, ChainInput(y, augmented, i),
                                            sample_rate, NoPath, draws, r.draws))
    /\ pc' = "mkdir"
    /\ UNCHANGED <<env, run, seeds, input_files, idx, file_path, sample_rate,
                   class_subdir, basename, y, sr, i, dirs, fs, console, prevFs>>

\* Line 131 raises.
AugmentFail ==
    /\ pc = "augment"
    /\ pc' = "aborted"
    /\ UNCHANGED <<env, locals, run, rng, draws, seeds, input_files, idx, dirs, fs,
                   console, calls, prevFs>>

\* Lines 134-135: output_subdir.mkdir(parents=True, exist_ok=True).
Mkdir ==
    /\ pc = "mkdir"
    /\ dirs' = dirs \cup MkdirParents(class_subdir)
    /\ calls' = Append(calls, Call("mkdir", idx, i, NoWave, 0,
                                   [dir |-> class_subdir, name |-> <<>>], draws, draws))
    /\ pc' = "write"
    /\ UNCHANGED <<env, locals, run, rng, draws, seeds, input_files, idx, fs, console,
                   prevFs>>

\* Line 135 raises (no permission).
MkdirFail ==
    /\ pc = "mkdir"
    /\ pc' = "aborted"
    /\ UNCHANGED <<env, locals, run, rng, draws, seeds, input_files, idx, dirs, fs,
                   console, calls, prevFs>>

\* Lines 138-139: sf.write(output_path, augmented, sample_rate); an existing
\* file of that path is overwritten.
Write ==
    /\ pc = "write"
    /\ LET output_path == OutputPath(class_subdir, basename, i)
       IN  /\ fs' = [p \in DOMAIN fs \cup {output_path} |->
                        IF p = output_path
                        THEN [data |-> augmented, rate |-> sample_rate]
                        ELSE fs[p]]
           /\ calls' = Append(calls, Call("write", idx, i, augmented, sample_rate,
                                          output_path, draws, draws))
    /\ pc' = "print"
    /\ UNCHANGED <<env, locals, run, rng, draws, seeds, input_files, idx, dirs,
                   console, prevFs>>

\* Line 139 raises (no permission, no space).
WriteFail ==
    /\ pc = "write"
    /\ pc' = "aborted"
    /\ UNCHANGED <<env, locals, run, rng, draws, seeds, input_files, idx, dirs, fs,
                   console, calls, prevFs>>

\* Line 140, then the loop of line 130 steps: the next index, or the return
\* to the driver after the last.
PrintSaved ==
    /\ pc = "print"
    /\ console' = Append(console, [kind |-> "Saved", n |-> 0,
                                   path |-> OutputPath(class_subdir, basename, i)])
    /\ i' = i + 1
    /\ pc' = IF i + 1 < NUM_AUGMENTATIONS THEN "augment" ELSE "for"
    /\ UNCHANGED <<env, run, rng, draws, seeds, input_files, idx, file_path,
                   sample_rate, class_subdir, basename, y, sr, augmented, dirs, fs,
                   calls, prevFs>>

\* The whole notebook is run again in a fresh kernel over the same input: the
\* output tree of the first run stays on disk and is kept for comparison.
Rerun ==
    /\ pc = "done"
    /\ run = 1
    /\ run' = 2
    /\ prevFs' = fs
    /\ rng' \in RngStates
    /\ draws' = 0
    /\ seeds' = 0
    /\ input_files' = <<>>
    /\ idx' = 0
    /\ file_path' = NoEntry
    /\ sample_rate' = 0
    /\ class_subdir' = <<>>
    /\ basename' = <<>>
    /\ y' = NoWave
    /\ sr' = 0
    /\ i' = 0
    /\ augmented' = NoWave
    /\ console' = <<>>
    /\ calls' = <<>>
    /\ pc' = "seed"
    /\ UNCHANGED <<env, dirs, fs>>

Next ==
    \/ Seed
    \/ Discover
    \/ NextFile
    \/ Finish
    \/ Load
    \/ LoadFail
    \/ Augment
    \/ AugmentFail
    \/ Mkdir
    \/ MkdirFail
    \/ Write
    \/ WriteFail
    \/ PrintSaved

Spec == Init /\ [][Next]_vars

NextRerun == Next \/ Rerun

SpecRerun == Init /\ [][NextRerun]_vars

\* ----------------------------------------------------------------- claims

N == NUM_AUGMENTATIONS

\* The calls of one kind, in the order made.
CallSeq(op) == SelectSeq(calls, LAMBDA c : c.op = op)

\* The positions in calls of the writes made for the k-th discovered file.
WritesOf(k) == {n \in 1..Len(calls) : calls[n].op = "write" /\ calls[n].file = k}

Lines(kind) == SelectSeq(console, LAMBDA l : l.kind = kind)

Processing == pc \in {"augment", "mkdir", "write", "print"}

\* A discovered name without its final extension: every discovered name ends
\* in ".wav", which is its extension unless it is the whole name.
ExpectedBase(name) ==
    IF Len(name) > Len(WavExt) THEN SubSeq(name, 1, Len(name) - Len(WavExt)) ELSE name

ExpectedPaths(e) ==
    { [dir |-> e.dir,
       name |-> ExpectedBase(e.name) \o <<"_", "a", "u", "g", Digits[n + 1]>> \o WavExt]
      : n \in 1..N }

\* C1: every file augment_and_save has completed wrote exactly the paths
\* class_subdir/(basename)_aug1.wav .. _augN.wav, and the output tree holds
\* no path outside those of the files processed so far.
C1_ExactOutputPaths ==
    /\ \A k \in 1..Len(input_files) :
         (k < idx \/ pc = "done" \/ (k = idx /\ pc = "for")) =>
            /\ {calls[n].path : n \in WritesOf(k)} = ExpectedPaths(input_files[k])
            /\ Cardinality(WritesOf(k)) = N
    /\ DOMAIN fs \subseteq UNION {ExpectedPaths(input_files[k]) : k \in 1..idx}
    /\ pc = "done" =>
         DOMAIN fs = UNION {ExpectedPaths(input_files[k]) : k \in 1..Len(input_files)}

C1_Witness ==
    /\ pc = "done"
    /\ Len(input_files) = 2
    /\ \E k \in 1..2 : input_files[k].dir = <<"red">>
                       /\ input_files[k].name = Chars(<<"y", "e", "s">>)
    /\ [dir |-> <<"red">>, name |-> <<"y", "e", "s", "_", "a", "u", "g", "3">> \o WavExt]
          \in DOMAIN fs

\* C2: a second complete run over the same input tree, with the same seed,
\* leaves every output path with the same samples as the first run.
C2_RerunIdentical == (pc = "done" /\ run = 2) => fs = prevFs

\* C3: every call of the chain is handed the waveform the load returned for
\* the current file (no operation applied to it yet), and y stays that
\* waveform through all iterations.
C3_ChainOnOriginal ==
    /\ \A n \in 1..Len(calls) :
         calls[n].op = "augment" =>
            /\ calls[n].samples.src = input_files[calls[n].file]
            /\ calls[n].samples.ops = <<>>
    /\ Processing => (y.src = input_files[idx] /\ y.ops = <<>>)

C3_Witness ==
    \E n \in 1..Len(calls) :
       /\ calls[n].op = "augment"
       /\ calls[n].k = 2
       /\ \E m \in 1..(n - 1) :
            /\ calls[m].op = "write"
            /\ calls[m].file = calls[n].file
            /\ calls[m].samples.ops # <<>>

\* C4: a failure aborts the run where it happens: a failed load is the last
\* call made, and once aborted no completion message is printed, no call
\* concerns a later file, the failing file has fewer than N writes (none
\* when its load failed), and every earlier file keeps its N outputs.
C4_FailFast ==
    /\ \A n \in 1..Len(calls) :
         (calls[n].op = "load" /\ input_files[calls[n].file].kind # "audio") =>
            (pc = "aborted" /\ n = Len(calls) /\ calls[n].file = idx)
    /\ pc = "aborted" =>
         /\ Lines("Done") = <<>>
         /\ \A n \in 1..Len(calls) : calls[n].file <= idx
         /\ Cardinality(WritesOf(idx)) < N
         /\ file_path.kind # "audio" => WritesOf(idx) = {}
         /\ \A k \in 1..(idx - 1) :
              /\ Cardinality(WritesOf(k)) = N
              /\ \A n \in WritesOf(k) : calls[n].path \in DOMAIN fs

C4_Witness ==
    /\ pc = "aborted"
    /\ idx = 2
    /\ Cardinality(WritesOf(1)) = N
    /\ Cardinality(WritesOf(2)) = 1
    /\ Len(input_files) = 3

C4_WitnessLoad ==
    /\ pc = "aborted"
    /\ idx = 2
    /\ file_path.kind = "dir"

NothingProcessed ==
    /\ calls = <<>>
    /\ dirs = {}
    /\ DOMAIN fs = {}
    /\ pc = "for" => console = FoundReport(<<>>)
    /\ pc = "done" =>
         console = <<[kind |-> "Found", n |-> 0, path |-> NoEntry],
                     [kind |-> "Done", n |-> 0, path |-> NoEntry]>>

\* C5 as stated: with the input directory missing the run fails; it neither
\* completes nor reports zero files found.
C5_MissingInputFails ==
    ~inputExists =>
        /\ pc # "done"
        /\ Lines("Done") = <<>>
        /\ Lines("Found") = <<>>

\* C5 as amended: with the input directory missing the run does not fail: it
\* reports zero files found, processes nothing and prints the completion
\* message.
C5_MissingInputIsEmptyRun ==
    ~inputExists => (pc \in {"seed", "discover", "for", "done"} /\ NothingProcessed)

C5_Witness == ~inputExists /\ pc = "done" /\ Len(console) = 2

\* C6: with an input root that holds no name matching *.wav the driver
\* reports zero files, makes no call, creates no directory (not even the
\* output root), writes nothing and ends with the completion message.
C6_EmptyInputNoOutput ==
    (inputExists /\ Matches(tree) = {}) =>
        (pc \in {"seed", "discover", "for", "done"} /\ NothingProcessed)

C6_Witness ==
    /\ inputExists
    /\ tree # {}
    /\ Matches(tree) = {}
    /\ pc = "done"
    /\ Len(console) = 2

\* C7: the rate passed to the load, to the chain and to the write is the
\* configured SAMPLE_RATE, and every output file carries that rate in its
\* header and in its samples, whatever rate its input was recorded at.
C7_ConfiguredRate ==
    /\ \A n \in 1..Len(calls) :
         calls[n].op \in {"load", "augment", "write"} => calls[n].sr = SAMPLE_RATE
    /\ \A n \in 1..Len(calls) :
         calls[n].op \in {"augment", "write"} => calls[n].samples.rate = SAMPLE_RATE
    /\ \A p \in DOMAIN fs : fs[p].rate = SAMPLE_RATE /\ fs[p].data.rate = SAMPLE_RATE
    /\ Processing => sr = SAMPLE_RATE

C7_Witness ==
    \E p \in DOMAIN fs : fs[p].data.src.rate = 44100 /\ fs[p].rate = SAMPLE_RATE

\* C8 as stated: a successful run prints one line per file discovered, one
\* "Saved" line per file written and one completion message, last.
C8_LinePerFileDiscovered ==
    pc = "done" =>
        /\ Len(Lines("Found")) = Len(input_files)
        /\ Len(Lines("Saved")) = Len(input_files) * N
        /\ Len(Lines("Done")) = 1
        /\ console[Len(console)].kind = "Done"

\* C8 as amended: a run prints one line with the count of files discovered,
\* first; then one "Saved" line per file written, each after its write and
\* naming the path written; and one completion message, printed last and
\* only once every file has been processed.
C8_ConsoleShape ==
    /\ pc # "seed" /\ pc # "discover" =>
         /\ console # <<>>
         /\ console[1] = [kind |-> "Found", n |-> Len(input_files), path |-> NoEntry]
         /\ Len(Lines("Found")) = 1
    /\ Len(Lines("Saved")) <= Len(CallSeq("write"))
    /\ \A j \in 1..Len(Lines("Saved")) : Lines("Saved")[j].path = CallSeq("write")[j].path
    /\ pc # "done" => Lines("Done") = <<>>
    /\ pc = "done" =>
         /\ Len(console) = 1 + Len(input_files) * N + 1
         /\ Len(Lines("Saved")) = Len(input_files) * N
         /\ Len(Lines("Done")) = 1
         /\ console[Len(console)].kind = "Done"
         /\ idx = Len(input_files)

C8_Witness == pc = "done" /\ Len(input_files) = 2 /\ Len(console) = 2 * N + 2

\* C9: random is seeded once, before anything else, and never again: its
\* state is the seeded stream at the number of draws made so far, the first
\* call starts at position 0 and every later call starts where the call
\* before it ended, across indices and across files; a chain call consumes
\* at least five draws.
C9_SeededOnce ==
    /\ pc # "seed" => (seeds = 1 /\ rng = StreamAt(RANDOM_SEED, draws))
    /\ calls # <<>> => calls[1].pos0 = 0
    /\ \A n \in 1..(Len(calls) - 1) : calls[n + 1].pos0 = calls[n].pos1
    /\ \A n \in 1..Len(calls) :
         calls[n].op = "augment" => calls[n].pos1 >= calls[n].pos0 + 5

C9_Witness ==
    \E n \in 1..Len(calls) :
       /\ calls[n].op = "load"
       /\ calls[n].file = 2
       /\ calls[n].pos0 > 5 * N
       /\ pc = "done"

\* C10: the output paths of one run are pairwise distinct over all (file,
\* index) pairs, so a successful run over F files leaves F * N output files.
C10_DistinctOutputPaths ==
    pc = "done" =>
        /\ Cardinality(DOMAIN fs) = Len(input_files) * N
        /\ \A m, n \in 1..Len(calls) :
             (calls[m].op = "write" /\ calls[n].op = "write" /\ m # n) =>
                calls[m].path # calls[n].path

====
